---- MODULE Spec2Model ----
(***************************************************************************)
(* Tremor: causal shock monitor.  Model of the causal inference core:      *)
(*   tremor/causal/network.py      the shared causal graph and its reload  *)
(*   tremor/causal/baselines.py    expected-response baseline lookup       *)
(*   tremor/core/shock_detector.py detect_shock                            *)
(*   tremor/core/signal_factory.py compute_signals_for_event               *)
(*   tremor/core/propagation.py    create_propagation_monitors,            *)
(*                                 check_propagation                       *)
(*   tremor/api/monitor.py         the propagation request handlers        *)
(*                                                                         *)
(* Times are whole days, a week is 7 days.  Numeric values (signal values, *)
(* market series, thresholds) are integers.  An Optional value is None or  *)
(* Some(v).                                                                *)
(***************************************************************************)
EXTENDS Integers, Sequences, FiniteSets, TLC

VARIABLES
    causal_network,   \* network.py: the module-level DiGraph
    loader,           \* the thread running load_network: position and locals
    obs,              \* what the last reader of the graph was handed
    baselines,        \* baselines.py: the module-level _baselines mapping
    signals,          \* table signals
    props,            \* table propagation_results
    now,              \* the wall clock, in days
    req,              \* the request being served by each worker thread
    last,             \* the last core call made: its inputs and what it returned
    ds,               \* detect_shock: the arguments and result of the last call
    study,            \* event_study.py: the arguments, locals and result of the last call
    bl                \* baselines.py: the reload in flight and the last lookup made

vars == <<causal_network, loader, obs, baselines, signals, props, now, req, last, ds, study, bl>>

----------------------------------------------------------------------------
(* Optional values and small helpers *)

None == <<>>

Some(v) == <<v>>

Range(s) == {s[i] : i \in 1..Len(s)}

Abs(x) == IF x < 0 THEN -x ELSE x

Max(a, b) == IF a >= b THEN a ELSE b

Min(a, b) == IF a <= b THEN a ELSE b

----------------------------------------------------------------------------
(* The causal graph: networkx.DiGraph as used by network.py.               *)
(* nodes: the node ids in insertion order; edges: one record per ordered   *)
(* pair, in insertion order, with the lag attribute (None when the edge    *)
(* carries no lag attribute, which a GraphML source allows).               *)

Nodes == {"A", "B", "C"}

EmptyGraph == [nodes |-> <<>>, edges |-> <<>>]

HasNode(g, n) == n \in Range(g.nodes)

HasEdge(g, s, t) == \E i \in 1..Len(g.edges) : g.edges[i].source = s /\ g.edges[i].target = t

AddNode(g, n) == IF HasNode(g, n) THEN g ELSE [g EXCEPT !.nodes = Append(@, n)]

\* DiGraph.add_edge: both endpoints become nodes; an existing edge keeps its
\* place and has its attribute dict updated
AddEdge(g, e) ==
    LET g2 == AddNode(AddNode(g, e.source), e.target)
    IN  IF HasEdge(g2, e.source, e.target)
        THEN [g2 EXCEPT !.edges =
                 [i \in 1..Len(@) |->
                     IF @[i].source = e.source /\ @[i].target = e.target /\ e.lag # None
                     THEN e ELSE @[i]]]
        ELSE [g2 EXCEPT !.edges = Append(@, e)]

RECURSIVE AddEdges(_, _)
AddEdges(g, es) == IF es = <<>> THEN g ELSE AddEdges(AddEdge(g, Head(es)), Tail(es))

RECURSIVE AddNodes(_, _)
AddNodes(g, ns) == IF ns = <<>> THEN g ELSE AddNodes(AddNode(g, Head(ns)), Tail(ns))

OutEdges(g, n) == SelectSeq(g.edges, LAMBDA e : e.source = n)

InEdges(g, n) == SelectSeq(g.edges, LAMBDA e : e.target = n)

\* DiGraph.edges(data=True): node by node in node order, each node's
\* out-edges in insertion order
RECURSIVE EdgeView(_, _)
EdgeView(g, ns) == IF ns = <<>> THEN <<>> ELSE OutEdges(g, Head(ns)) \o EdgeView(g, Tail(ns))

\* line 51 without the test of lines 49-50: successors raises for a node
\* that is not in the graph
successors_unguarded(g, node) ==
    IF ~HasNode(g, node) THEN <<"NetworkXError">>
    ELSE LET out == OutEdges(g, node) IN [i \in 1..Len(out) |-> out[i].target]

get_downstream_nodes(g, node) ==
    IF ~HasNode(g, node) THEN <<>>
    ELSE LET out == OutEdges(g, node) IN [i \in 1..Len(out) |-> out[i].target]

get_upstream_nodes(g, node) ==
    IF ~HasNode(g, node) THEN <<>>
    ELSE LET in == InEdges(g, node) IN [i \in 1..Len(in) |-> in[i].source]

get_edge_info(g, source, target) ==
    IF ~HasEdge(g, source, target) THEN None
    ELSE Some(CHOOSE e \in Range(g.edges) : e.source = source /\ e.target = target)

get_all_edges(g) == EdgeView(g, g.nodes)

\* the directed paths from source to target that visit no node twice
PathsBetween(g, source, target) ==
    {p \in UNION {[1..k -> Range(g.nodes)] : k \in 1..Len(g.nodes)} :
        /\ p[1] = source
        /\ p[Len(p)] = target
        /\ \A i \in 1..(Len(p) - 1) : HasEdge(g, p[i], p[i + 1])
        /\ \A i, j \in 1..Len(p) : i # j => p[i] # p[j]}

\* a path search that stops at the first path found, whatever its length
any_simple_path(g, source, target) ==
    LET ps == PathsBetween(g, source, target)
    IN  IF ~HasNode(g, source) \/ ~HasNode(g, target) \/ ps = {}
        THEN {None}
        ELSE {Some(p) : p \in ps}

\* nx.shortest_path: the set of results it may return (any path of minimum
\* edge count); {None} when it raises NetworkXNoPath or NodeNotFound
get_transmission_path(g, source, target) ==
    LET ps == PathsBetween(g, source, target)
    IN  IF ~HasNode(g, source) \/ ~HasNode(g, target) \/ ps = {}
        THEN {None}
        ELSE {Some(p) : p \in {q \in ps : \A r \in ps : Len(q) <= Len(r)}}

----------------------------------------------------------------------------
(* Graph source files *)

Row(c, e, l) == [source |-> c, target |-> e, lag |-> l]

\* the Granger results CSV of the running example: A->B, A->C, B->C
GrangerCsv ==
    [exists |-> TRUE, suffix |-> ".csv", nodes |-> <<>>,
     rows |-> <<Row("A", "B", Some(1)), Row("A", "C", Some(2)), Row("B", "C", Some(1))>>]

\* a GraphML file: declares its nodes, and an edge may carry no lag
NetworkGraphml ==
    [exists |-> TRUE, suffix |-> ".graphml", nodes |-> <<"C", "A", "B">>,
     rows |-> <<Row("B", "A", Some(2)), Row("A", "B", None)>>]

MissingFile == [exists |-> FALSE, suffix |-> ".graphml", nodes |-> <<>>, rows |-> <<>>]

JsonFile == [exists |-> TRUE, suffix |-> ".json", nodes |-> <<>>, rows |-> <<>>]

\* a Granger results CSV whose second row has a lag cell that is no integer
\* (written None here)
MalformedCsv ==
    [exists |-> TRUE, suffix |-> ".csv", nodes |-> <<>>,
     rows |-> <<Row("C", "A", Some(1)), Row("A", "B", None)>>]

Sources == {GrangerCsv, NetworkGraphml, MissingFile, JsonFile, MalformedCsv}

_load_from_granger_csv(src) == AddEdges(EmptyGraph, src.rows)

read_graphml(src) == AddEdges(AddNodes(EmptyGraph, src.nodes), src.rows)

\* load_network lines 13-22: the graph read from the file, or the error raised
ParseSource(src) ==
    IF ~src.exists THEN [error |-> "FileNotFoundError", graph |-> EmptyGraph]
    ELSE IF src.suffix = ".graphml" THEN [error |-> "", graph |-> read_graphml(src)]
    ELSE IF src.suffix = ".csv"
    THEN IF \E i \in 1..Len(src.rows) : src.rows[i].lag = None
         THEN [error |-> "ValueError: invalid literal for int()", graph |-> EmptyGraph]
         ELSE [error |-> "", graph |-> _load_from_granger_csv(src)]
    ELSE [error |-> "ValueError", graph |-> EmptyGraph]

----------------------------------------------------------------------------
(* load_network, one step per access to the shared graph *)

LoaderIdle == [pc |-> "idle", pre |-> EmptyGraph, loaded |-> EmptyGraph,
               todoNodes |-> <<>>, todoEdges |-> <<>>, error |-> ""]

\* load_network were it to empty the shared graph before reading the file
LoadBeginClearFirst(src) ==
    /\ loader.pc = "idle"
    /\ causal_network' = EmptyGraph
    /\ LET parsed == ParseSource(src)
       IN  loader' = IF parsed.error # ""
                     THEN [LoaderIdle EXCEPT !.error = parsed.error]
                     ELSE [pc |-> "update", pre |-> causal_network, loaded |-> parsed.graph,
                           todoNodes |-> parsed.graph.nodes,
                           todoEdges |-> get_all_edges(parsed.graph), error |-> ""]
    /\ UNCHANGED <<obs, baselines, signals, props, now, req, last, ds, study, bl>>

\* lines 13-22: locate and parse the file; on success `loaded` is ready and
\* the shared graph has not been touched yet
LoadBegin(src) ==
    /\ loader.pc = "idle"
    /\ LET parsed == ParseSource(src)
       IN  loader' = IF parsed.error # ""
                     THEN [LoaderIdle EXCEPT !.error = parsed.error]
                     ELSE [pc |-> "clear", pre |-> causal_network, loaded |-> parsed.graph,
                           todoNodes |-> parsed.graph.nodes,
                           todoEdges |-> get_all_edges(parsed.graph), error |-> ""]
    /\ UNCHANGED <<causal_network, obs, baselines, signals, props, now, req, last, ds, study, bl>>

\* line 24: causal_network.clear()
LoadClear ==
    /\ loader.pc = "clear"
    /\ causal_network' = EmptyGraph
    /\ loader' = [loader EXCEPT !.pc = "update"]
    /\ UNCHANGED <<obs, baselines, signals, props, now, req, last, ds, study, bl>>

\* line 25: causal_network.update(loaded) = add_nodes_from(loaded.nodes),
\* then add_edges_from(loaded.edges), one element at a time
LoadAddNode ==
    /\ loader.pc = "update"
    /\ loader.todoNodes # <<>>
    /\ causal_network' = AddNode(causal_network, Head(loader.todoNodes))
    /\ loader' = [loader EXCEPT !.todoNodes = Tail(@)]
    /\ UNCHANGED <<obs, baselines, signals, props, now, req, last, ds, study, bl>>

LoadAddEdge ==
    /\ loader.pc = "update"
    /\ loader.todoNodes = <<>>
    /\ loader.todoEdges # <<>>
    /\ causal_network' = AddEdge(causal_network, Head(loader.todoEdges))
    /\ loader' = [loader EXCEPT !.todoEdges = Tail(@)]
    /\ UNCHANGED <<obs, baselines, signals, props, now, req, last, ds, study, bl>>

LoadReturn ==
    /\ loader.pc = "update"
    /\ loader.todoNodes = <<>>
    /\ loader.todoEdges = <<>>
    /\ loader' = [LoaderIdle EXCEPT !.pre = loader.pre, !.loaded = loader.loaded]
    /\ UNCHANGED <<causal_network, obs, baselines, signals, props, now, req, last, ds, study, bl>>

load_network ==
    \/ \E src \in Sources : LoadBegin(src)
    \/ LoadClear
    \/ LoadAddNode
    \/ LoadAddEdge
    \/ LoadReturn

----------------------------------------------------------------------------
(* Readers of the shared graph, each one call on another thread *)

QueryNodes == {"A", "C", "Z"}

ReaderFns == {"get_downstream_nodes", "get_upstream_nodes", "get_edge_info",
              "get_transmission_path", "get_all_edges"}

\* the results the call fn(a, b) may return on graph g
ReadResults(g, fn, a, b) ==
    CASE fn = "get_downstream_nodes" -> {get_downstream_nodes(g, a)}
      [] fn = "get_upstream_nodes" -> {get_upstream_nodes(g, a)}
      [] fn = "get_edge_info" -> {get_edge_info(g, a, b)}
      [] fn = "get_transmission_path" -> get_transmission_path(g, a, b)
      [] fn = "get_all_edges" -> {get_all_edges(g)}

\* the graph a reload in progress started from, and the one it is installing
PreGraph == IF loader.pc = "idle" THEN causal_network ELSE loader.pre

PostGraph == IF loader.pc = "idle" THEN causal_network ELSE loader.loaded

NoObs == [fn |-> "none", a |-> "", b |-> "", result |-> None,
          pre |-> EmptyGraph, post |-> EmptyGraph, during |-> FALSE]

Read(fn, a, b) ==
    /\ \E r \in ReadResults(causal_network, fn, a, b) :
          obs' = [fn |-> fn, a |-> a, b |-> b, result |-> r,
                  pre |-> PreGraph, post |-> PostGraph, during |-> loader.pc # "idle"]
    /\ UNCHANGED <<causal_network, loader, baselines, signals, props, now, req, last, ds, study, bl>>

ReadNode == \E fn \in {"get_downstream_nodes", "get_upstream_nodes"}, a \in QueryNodes : Read(fn, a, "")

ReadPair == \E fn \in {"get_edge_info", "get_transmission_path"}, a, b \in QueryNodes : Read(fn, a, b)

ReadAll == Read("get_all_edges", "", "")

----------------------------------------------------------------------------
(* Expected-response baselines (baselines.py) *)

\* an IRF baselines file: A->B responds negatively, curve indexed by lag
IrfBaselines ==
    [p \in {<<"A", "B">>} |-> [direction |-> Some("negative"), responses |-> <<0, 5>>]]

NoBaselines == [p \in {} |-> [direction |-> None, responses |-> <<>>]]

\* _baselines.get(source, {}).get(target, {})
TargetData(b, source_node, target_node) ==
    IF <<source_node, target_node>> \in DOMAIN b
    THEN b[<<source_node, target_node>>]
    ELSE [direction |-> None, responses |-> <<>>]

get_expected_direction(b, source_node, target_node) ==
    TargetData(b, source_node, target_node).direction

\* responses[lag] when lag < len(responses); Python indexes a negative lag
\* from the end, and raises IndexError below -len
get_expected_response(b, source_node, target_node, lag) ==
    LET responses == TargetData(b, source_node, target_node).responses
    IN  IF lag < Len(responses)
        THEN IF lag >= 0 THEN [raised |-> "", value |-> Some(responses[lag + 1])]
             ELSE IF lag >= -Len(responses)
                  THEN [raised |-> "", value |-> Some(responses[Len(responses) + lag + 1])]
                  ELSE [raised |-> "IndexError", value |-> None]
        ELSE [raised |-> "", value |-> None]

\* baselines files a reload may be pointed at
IrfJson == [exists |-> TRUE, parsable |-> TRUE, content |-> IrfBaselines]

\* a later estimate: the A->B curve is longer and its sign is the other
\* one, and A->C has a curve too
IrfJsonRevised ==
    [exists |-> TRUE, parsable |-> TRUE,
     content |-> [p \in {<<"A", "B">>, <<"A", "C">>} |->
                     IF p = <<"A", "B">>
                     THEN [direction |-> Some("positive"), responses |-> <<1, 2, 3>>]
                     ELSE [direction |-> Some("negative"), responses |-> <<4>>]]]

MissingJson == [exists |-> FALSE, parsable |-> FALSE, content |-> NoBaselines]

\* a file json.load rejects
BrokenJson == [exists |-> TRUE, parsable |-> FALSE, content |-> NoBaselines]

BaselineFiles == {IrfJson, IrfJsonRevised, MissingJson, BrokenJson}

NoLookup == [fn |-> "none", source_node |-> "", target_node |-> "", lag |-> 0,
             raised |-> "", value |-> None, seen |-> NoBaselines, pre |-> NoBaselines,
             post |-> NoBaselines, during |-> FALSE]

NoReload == [pc |-> "idle", file |-> MissingJson, pre |-> NoBaselines, error |-> "",
             call |-> NoLookup]

\* a reload that emptied the mapping in place before reading the file
LoadBaselinesOpenClearing(file) ==
    /\ bl.pc = "idle"
    /\ IF ~file.exists
       THEN /\ bl' = [bl EXCEPT !.error = "FileNotFoundError", !.file = file,
                                !.pre = baselines]
            /\ baselines' = baselines
       ELSE /\ bl' = [bl EXCEPT !.pc = "open", !.file = file, !.pre = baselines,
                                !.error = ""]
            /\ baselines' = NoBaselines
    /\ UNCHANGED <<causal_network, loader, obs, signals, props, now, req, last, ds, study>>

\* load_baselines lines 23-26: the path is tested and the file opened
LoadBaselinesOpen(file) ==
    /\ bl.pc = "idle"
    /\ IF ~file.exists
       THEN bl' = [bl EXCEPT !.error = "FileNotFoundError", !.file = file, !.pre = baselines]
       ELSE bl' = [bl EXCEPT !.pc = "open", !.file = file, !.pre = baselines, !.error = ""]
    /\ UNCHANGED <<causal_network, loader, obs, baselines, signals, props, now, req, last, ds, study>>

\* line 27: json.load builds the new mapping, then the global is rebound to
\* it; a file that does not parse raises before the assignment
LoadBaselinesAssign ==
    /\ bl.pc = "open"
    /\ IF bl.file.parsable
       THEN /\ baselines' = bl.file.content
            /\ bl' = [bl EXCEPT !.pc = "idle"]
       ELSE /\ baselines' = baselines
            /\ bl' = [bl EXCEPT !.pc = "idle", !.error = "JSONDecodeError"]
    /\ UNCHANGED <<causal_network, loader, obs, signals, props, now, req, last, ds, study>>

load_baselines ==
    \/ \E file \in BaselineFiles : LoadBaselinesOpen(file)
    \/ LoadBaselinesAssign

\* the mapping before the reload in flight, and the one it installs
PreBaselines == IF bl.pc = "idle" THEN baselines ELSE bl.pre

PostBaselines ==
    IF bl.pc = "idle" THEN baselines
    ELSE IF bl.file.parsable THEN bl.file.content ELSE bl.pre

\* the lags a lookup is made with run from -MaxLag to MaxLag
MaxLag == 3

LookupSources == {"A", "Z"}

LookupTargets == {"B", "C"}

\* what a lookup hands back on the mapping b
Lookup(b, fn, source_node, target_node, lag) ==
    IF fn = "get_expected_direction"
    THEN [raised |-> "", value |-> get_expected_direction(b, source_node, target_node)]
    ELSE get_expected_response(b, source_node, target_node, lag)

\* a lookup on another thread: lines 32 and 42 read the global once, the
\* rest of the call works on the object they were handed
BaselineLookup(fn, source_node, target_node, lag) ==
    /\ LET out == Lookup(baselines, fn, source_node, target_node, lag)
       IN  bl' = [bl EXCEPT !.call =
                     [fn |-> fn, source_node |-> source_node, target_node |-> target_node,
                      lag |-> lag, raised |-> out.raised, value |-> out.value,
                      seen |-> baselines, pre |-> PreBaselines, post |-> PostBaselines,
                      during |-> bl.pc # "idle"]]
    /\ UNCHANGED <<causal_network, loader, obs, baselines, signals, props, now, req, last, ds, study>>

direction_lookup ==
    \E s \in LookupSources, t \in LookupTargets : BaselineLookup("get_expected_direction", s, t, 0)

response_lookup ==
    \E s \in LookupSources, t \in LookupTargets, lag \in (-MaxLag)..MaxLag :
        BaselineLookup("get_expected_response", s, t, lag)

----------------------------------------------------------------------------
(* Configuration and the tables the engine does not write *)

PROPAGATION_BUFFER_WEEKS == 2

MIN_HISTORY_FOR_ZSCORE == 5

DEFAULT_ABSOLUTE_THRESHOLD == 1

DaysPerWeek == 7

\* table signal_transforms, in row order; a transform expression is the
\* difference of two raw_data fields
SignalTransforms ==
    << [id |-> "t1", event_types |-> {"fed_announcement"}, node_mapping |-> "A",
        transform_expression |-> <<"actual_rate", "expected_rate">>, threshold_sd |-> 2],
       [id |-> "t2", event_types |-> {"fed_announcement", "cpi_release"}, node_mapping |-> "C",
        transform_expression |-> <<"actual", "forecast">>, threshold_sd |-> 2] >>

\* table events
Events ==
    { [id |-> "e1", type |-> "fed_announcement", timestamp |-> 0,
       raw_data |-> [k \in {"actual_rate", "expected_rate"} |->
                        IF k = "actual_rate" THEN 6 ELSE 4]],
      [id |-> "e2", type |-> "cpi_release", timestamp |-> 0,
       raw_data |-> [k \in {"actual", "forecast"} |-> IF k = "actual" THEN 3 ELSE 0]],
      [id |-> "e3", type |-> "fed_announcement", timestamp |-> 0,
       raw_data |-> [k \in {"actual_rate", "expected_rate"} |->
                        IF k = "actual_rate" THEN 5 ELSE 4]] }

EventById(event_id) == CHOOSE e \in Events : e.id = event_id

\* the event ids a request may name; e9 is no event
EventIds == {"e1", "e2", "e3", "e9"}

----------------------------------------------------------------------------
(* propagation.py *)

\* int(x / 7): Python's int() truncates toward zero
TruncDiv(x, d) == IF x >= 0 THEN x \div d ELSE -((-x) \div d)

\* lines 33-35: the end of the monitoring window
MonitoredUntilNoBuffer(timestamp, lag_weeks) == timestamp + DaysPerWeek * lag_weeks

MonitoredUntil(timestamp, lag_weeks) ==
    timestamp + DaysPerWeek * (lag_weeks + PROPAGATION_BUFFER_WEEKS)

\* lines 24-48: the record built for one downstream node
NewMonitor(g, b, signal, source_node, target_node) ==
    LET edge == get_edge_info(g, source_node, target_node)
        lag_weeks == IF edge # None /\ edge[1].lag # None THEN edge[1].lag[1] ELSE 1
        dir == get_expected_direction(b, source_node, target_node)
        direction == IF dir # None THEN dir[1] ELSE "positive"
        magnitude == get_expected_response(b, source_node, target_node, lag_weeks)
    IN  [signal_id |-> signal.id,
         source_node |-> source_node,
         target_node |-> target_node,
         expected_lag_weeks |-> lag_weeks,
         expected_direction |-> direction,
         expected_magnitude |-> magnitude.value,
         actual_change |-> None,
         actual_lag_weeks |-> None,
         propagation_matched |-> None,
         status |-> "monitoring",
         monitored_from |-> signal.timestamp,
         monitored_until |-> Some(MonitoredUntil(signal.timestamp, lag_weeks))]

\* line 90
ActualChange(data) == IF Len(data) > 1 THEN data[Len(data)] - data[1] ELSE 0

DirectionMatchedOrFlat(expected_direction, actual_change) ==
    \/ expected_direction = "positive" /\ actual_change >= 0
    \/ expected_direction = "negative" /\ actual_change <= 0

\* lines 96-99
DirectionMatched(expected_direction, actual_change) ==
    \/ expected_direction = "positive" /\ actual_change > 0
    \/ expected_direction = "negative" /\ actual_change < 0

StatusWithDataStrict(t, monitored_until) ==
    IF monitored_until # None /\ t > monitored_until[1] THEN "completed" ELSE "monitoring"

\* lines 102-105
StatusWithData(t, monitored_until) ==
    IF monitored_until # None /\ t >= monitored_until[1] THEN "completed" ELSE "monitoring"

DeadlineReached(t, monitored_until) == monitored_until # None /\ t >= monitored_until[1]

\* lines 84-85: the deadline test of the no-data branch
DeadlinePassed(t, monitored_until) == monitored_until # None /\ t > monitored_until[1]

\* lines 76, 93-94
EndDate(t, monitored_until) == IF monitored_until # None THEN Min(t, monitored_until[1]) ELSE t

\* the weeks elapsed without the floor of one week
ActualLagWeeksUnclamped(end_date, monitored_from) ==
    TruncDiv(end_date - monitored_from, DaysPerWeek)

ActualLagWeeks(end_date, monitored_from) ==
    Max(1, TruncDiv(end_date - monitored_from, DaysPerWeek))

FetchError == [ok |-> FALSE, data |-> <<>>]

FetchOk(data) == [ok |-> TRUE, data |-> data]

\* lines 78-81: the fetch raised
OnFetchErrorAsNoData(result, t) ==
    [result |-> [result EXCEPT !.status = "no_response"], committed |-> TRUE, raised |-> ""]

OnFetchError(result, t) == [result |-> result, committed |-> FALSE, raised |-> ""]

\* an empty series after the deadline closing the record as completed
OnNoDataCompleted(result, t) ==
    IF DeadlinePassed(t, result.monitored_until)
    THEN [result |-> [result EXCEPT !.status = "completed"], committed |-> TRUE, raised |-> ""]
    ELSE [result |-> result, committed |-> FALSE, raised |-> ""]

\* lines 83-88: the fetch returned no data points
OnNoData(result, t) ==
    IF DeadlinePassed(t, result.monitored_until)
    THEN [result |-> [result EXCEPT !.status = "no_response"], committed |-> TRUE, raised |-> ""]
    ELSE [result |-> result, committed |-> FALSE, raised |-> ""]

\* a check that found data starting the monitoring window over
OnDataRestarting(result, t, data) ==
    LET actual_change == ActualChange(data)
        end_date == EndDate(t, result.monitored_until)
    IN  [result |-> [result EXCEPT
             !.actual_change = Some(actual_change),
             !.actual_lag_weeks = Some(Max(1, TruncDiv(end_date - result.monitored_from, DaysPerWeek))),
             !.propagation_matched =
                 Some(DirectionMatched(result.expected_direction, actual_change)),
             !.status = StatusWithData(t, result.monitored_until),
             !.monitored_from = end_date],
         committed |-> TRUE, raised |-> ""]

\* a change that is added to the one recorded by the check before
OnDataAccumulating(result, t, data) ==
    LET before == IF result.actual_change = None THEN 0 ELSE result.actual_change[1]
        actual_change == before + ActualChange(data)
        end_date == EndDate(t, result.monitored_until)
    IN  [result |-> [result EXCEPT
             !.actual_change = Some(actual_change),
             !.actual_lag_weeks = Some(ActualLagWeeks(end_date, result.monitored_from)),
             !.propagation_matched =
                 Some(DirectionMatched(result.expected_direction, actual_change)),
             !.status = StatusWithData(t, result.monitored_until)],
         committed |-> TRUE, raised |-> ""]

\* lines 90-109: the fetch returned a series
OnData(result, t, data) ==
    LET actual_change == ActualChange(data)
        end_date == EndDate(t, result.monitored_until)
    IN  [result |-> [result EXCEPT
             !.actual_change = Some(actual_change),
             !.actual_lag_weeks = Some(ActualLagWeeks(end_date, result.monitored_from)),
             !.propagation_matched =
                 Some(DirectionMatched(result.expected_direction, actual_change)),
             !.status = StatusWithData(t, result.monitored_until)],
         committed |-> TRUE, raised |-> ""]

\* check_propagation lines 67-109 on the record found, at time t: the record
\* after the call, whether the call committed, the exception it let through
check_propagation(result, t, fetch) ==
    IF ~fetch.ok THEN OnFetchError(result, t)
    ELSE IF fetch.data = <<>> THEN OnNoData(result, t)
    ELSE OnData(result, t, fetch.data)

----------------------------------------------------------------------------
(* shock_detector.py *)

RECURSIVE Sum(_)
Sum(xs) == IF xs = <<>> THEN 0 ELSE Head(xs) + Sum(Tail(xs))

SumSq(xs) == Sum([i \in 1..Len(xs) |-> xs[i] * xs[i]])

\* n (n-1) times the sample variance (ddof = 1) of xs; zero iff std == 0
ScaledVariance(xs) == Len(xs) * SumSq(xs) - Sum(xs) * Sum(xs)

\* the z-score (value - mean) / std, kept exact as the pair
\* dev = n (value - mean) and var = n (n-1) std^2, so that
\* z^2 = dev^2 (n-1) / (n var) and z has the sign of dev
ZScore(value, xs) == [dev |-> Len(xs) * value - Sum(xs), n |-> Len(xs), var |-> ScaledVariance(xs)]

\* abs(z) > threshold_sd were std the population deviation (ddof = 0)
ZExceedsPopulation(z, threshold_sd) ==
    \/ threshold_sd < 0
    \/ z.dev * z.dev * z.n > threshold_sd * threshold_sd * z.n * z.var

\* abs(z) > threshold_sd
ZExceeds(z, threshold_sd) ==
    \/ threshold_sd < 0
    \/ z.dev * z.dev * (z.n - 1) > threshold_sd * threshold_sd * z.n * z.var

detect_shock_inclusive(value, historical_values, threshold_sd, absolute_threshold) ==
    IF Len(historical_values) < MIN_HISTORY_FOR_ZSCORE
    THEN [z_score |-> None, is_shock |-> Abs(value) >= absolute_threshold]
    ELSE IF ScaledVariance(historical_values) = 0
    THEN [z_score |-> None, is_shock |-> Abs(value) >= absolute_threshold]
    ELSE LET z == ZScore(value, historical_values)
         IN  [z_score |-> Some(z), is_shock |-> ZExceeds(z, threshold_sd)]

detect_shock(value, historical_values, threshold_sd, absolute_threshold) ==
    IF Len(historical_values) < MIN_HISTORY_FOR_ZSCORE
    THEN [z_score |-> None, is_shock |-> Abs(value) > absolute_threshold]
    ELSE IF ScaledVariance(historical_values) = 0
    THEN [z_score |-> None, is_shock |-> Abs(value) > absolute_threshold]
    ELSE LET z == ZScore(value, historical_values)
         IN  [z_score |-> Some(z), is_shock |-> ZExceeds(z, threshold_sd)]

----------------------------------------------------------------------------
(* signal_factory.py *)

\* safe_eval_expression: a name missing from raw_data raises
safe_eval_expression(expression, raw_data) ==
    IF expression[1] \in DOMAIN raw_data /\ expression[2] \in DOMAIN raw_data
    THEN [raised |-> FALSE, value |-> raw_data[expression[1]] - raw_data[expression[2]]]
    ELSE [raised |-> TRUE, value |-> 0]

get_matching_transforms(event_type) ==
    SelectSeq(SignalTransforms, LAMBDA t : event_type \in t.event_types)

\* lines 35-52, one pass of the loop body: the Signal built for a transform
NewSignal(table, event, transform, value) ==
    LET rows == SelectSeq(table, LAMBDA s : s.transform_id = transform.id)
        historical_values == [i \in 1..Len(rows) |-> rows[i].value]
        d == detect_shock(value, historical_values, transform.threshold_sd,
                          DEFAULT_ABSOLUTE_THRESHOLD)
    IN  [event_id |-> event.id, transform_id |-> transform.id,
         timestamp |-> event.timestamp, value |-> value,
         z_score |-> d.z_score, is_shock |-> d.is_shock]

\* the signals compute_signals_for_event adds for the transforms ts, the
\* history being read from the committed table
RECURSIVE ComputeLoop(_, _, _)
ComputeLoop(table, event, ts) ==
    IF ts = <<>> THEN <<>>
    ELSE LET v == safe_eval_expression(Head(ts).transform_expression, event.raw_data)
         IN  IF v.raised THEN ComputeLoop(table, event, Tail(ts))
             ELSE <<NewSignal(table, event, Head(ts), v.value)>>
                  \o ComputeLoop(table, event, Tail(ts))

compute_signals_for_event(table, event) ==
    ComputeLoop(table, event, get_matching_transforms(event.type))

\* the primary keys given at insert: the row's position in its table
WithIds(table, rows) == [i \in 1..Len(rows) |-> [id |-> Len(table) + i] @@ rows[i]]

----------------------------------------------------------------------------
(* Bounds *)

MaxSignals == 6

MaxProps == 2

MaxNow == 29

MaxHistory == 6

\* the threads of the server's pool that serve requests
Workers == {1, 2}

\* one request at a time
OneWorker == {1}

TickDays == {1, 7}

\* what the market data provider may hand back: an error, or a weekly series
SeriesSet == {<<>>, <<1>>, <<1, 3>>, <<3, 1>>}

Fetches == {FetchError} \cup {FetchOk(d) : d \in SeriesSet}

----------------------------------------------------------------------------
(* api/signals.py: POST /signals/compute/{event_id} *)

NoCall == [op |-> "none"]

compute_signals(event_id) ==
    /\ IF \E e \in Events : e.id = event_id
       THEN LET event == EventById(event_id)
                new == WithIds(signals, compute_signals_for_event(signals, event))
            IN  /\ Len(signals) + Len(new) <= MaxSignals
                /\ signals' = signals \o new
                /\ last' = [op |-> "compute_signals", event_id |-> event_id, status |-> 200]
       ELSE /\ signals' = signals
            /\ last' = [op |-> "compute_signals", event_id |-> event_id, status |-> 404]
    /\ UNCHANGED <<causal_network, loader, obs, baselines, props, now, req, ds, study, bl>>

----------------------------------------------------------------------------
(* api/monitor.py: the two propagation handlers, one step per access to    *)
(* the database or the graph                                               *)

Idle == [pc |-> "idle", op |-> "", signal |-> None, source_node |-> "",
         downstream |-> <<>>, pending |-> <<>>, results |-> <<>>]

\* Signal.id == signal_id, Signal.is_shock
FindShock(signal_id) ==
    IF signal_id \in 1..Len(signals) /\ signals[signal_id].is_shock
    THEN Some(signals[signal_id]) ELSE None

\* the ids of the propagation_results rows of a signal, in table order
ResultsOf(signal_id) ==
    LET rows == SelectSeq(props, LAMBDA r : r.signal_id = signal_id)
    IN  [i \in 1..Len(rows) |-> rows[i].id]

\* monitor.py lines 70-80 and 88-98: look the shock up, query its records
Handle(w, op, signal_id) ==
    /\ req[w].pc = "idle"
    /\ LET signal == FindShock(signal_id)
           results == ResultsOf(signal_id)
       IN  IF signal = None
           THEN /\ req' = req
                /\ last' = [op |-> op, signal_id |-> signal_id, status |-> 404]
           ELSE IF results = <<>>
           THEN /\ req' = [req EXCEPT ![w] = [Idle EXCEPT !.pc = "create", !.op = op,
                                                          !.signal = signal]]
                /\ last' = last
           ELSE IF op = "check_shock_propagation"
           THEN /\ req' = [req EXCEPT ![w] = [Idle EXCEPT !.pc = "check", !.op = op,
                                                          !.signal = signal,
                                                          !.results = results]]
                /\ last' = last
           ELSE /\ req' = req
                /\ last' = [op |-> op, signal_id |-> signal_id, status |-> 200]
    /\ UNCHANGED <<causal_network, loader, obs, baselines, signals, props, now, ds, study, bl>>

get_shock_propagation(w) == \E sid \in 1..(Len(signals) + 1) : Handle(w, "get_shock_propagation", sid)

check_shock_propagation(w) == \E sid \in 1..(Len(signals) + 1) : Handle(w, "check_shock_propagation", sid)

\* the handler's continuation once it holds the list `results`
Continue(r, results) ==
    IF r.op = "check_shock_propagation" /\ results # <<>>
    THEN [r EXCEPT !.pc = "check", !.results = results, !.downstream = <<>>, !.pending = <<>>]
    ELSE Idle

\* propagation.py lines 19-25: the transform and the downstream nodes
CreateBegin(w) ==
    /\ req[w].pc = "create"
    /\ LET signal == req[w].signal[1]
           found == SelectSeq(SignalTransforms, LAMBDA t : t.id = signal.transform_id)
       IN  IF found = <<>>
           THEN /\ req' = [req EXCEPT ![w] = Idle]
                /\ last' = [op |-> "create_propagation_monitors", signal_id |-> signal.id,
                            created |-> 0]
           ELSE /\ req' = [req EXCEPT ![w].pc = "build",
                                      ![w].source_node = found[1].node_mapping,
                                      ![w].downstream =
                                          get_downstream_nodes(causal_network,
                                                               found[1].node_mapping)]
                /\ last' = last
    /\ UNCHANGED <<causal_network, loader, obs, baselines, signals, props, now, ds, study, bl>>

\* lines 27-49: one pass of the loop, the record is added to the session
CreateBuild(w) ==
    /\ req[w].pc = "build"
    /\ Len(req[w].pending) < Len(req[w].downstream)
    /\ LET target_node == req[w].downstream[Len(req[w].pending) + 1]
       IN  req' = [req EXCEPT ![w].pending =
                      Append(@, NewMonitor(causal_network, baselines, req[w].signal[1],
                                           req[w].source_node, target_node))]
    /\ UNCHANGED <<causal_network, loader, obs, baselines, signals, props, now, last, ds, study, bl>>

\* lines 51-54: commit, refresh, return
CreateCommit(w) ==
    /\ req[w].pc = "build"
    /\ Len(req[w].pending) = Len(req[w].downstream)
    /\ Len(props) + Len(req[w].pending) <= MaxProps
    /\ LET new == WithIds(props, req[w].pending)
       IN  /\ props' = props \o new
           /\ last' = [op |-> "create_propagation_monitors",
                       signal_id |-> req[w].signal[1].id, created |-> Len(new)]
           /\ req' = [req EXCEPT ![w] = Continue(req[w], [i \in 1..Len(new) |-> new[i].id])]
    /\ UNCHANGED <<causal_network, loader, obs, baselines, signals, now, ds, study, bl>>

create_propagation_monitors(w) == CreateBegin(w) \/ CreateBuild(w) \/ CreateCommit(w)

\* monitor.py lines 101-105: check_propagation on the next record of the list
CheckNext(w) ==
    /\ req[w].pc = "check"
    /\ \E fetch \in Fetches :
          LET id == Head(req[w].results)
              out == check_propagation(props[id], now, fetch)
          IN  /\ props' = [props EXCEPT ![id] = out.result]
              /\ last' = [op |-> "check_propagation", id |-> id, fetch |-> fetch,
                          committed |-> out.committed, raised |-> out.raised]
    /\ req' = [req EXCEPT ![w] = Continue([req[w] EXCEPT !.results = <<>>],
                                          Tail(req[w].results))]
    /\ UNCHANGED <<causal_network, loader, obs, baselines, signals, now, ds, study, bl>>

\* the wall clock moves on
Tick ==
    /\ \E d \in TickDays : now + d <= MaxNow /\ now' = now + d
    /\ UNCHANGED <<causal_network, loader, obs, baselines, signals, props, req, last, ds, study, bl>>

----------------------------------------------------------------------------
(* check_propagation called on a record, and again at once while the       *)
(* market data provider answers the same                                   *)

CheckFirst ==
    /\ \E id \in 1..Len(props), fetch \in Fetches :
          LET out == check_propagation(props[id], now, fetch)
          IN  /\ props' = [props EXCEPT ![id] = out.result]
              /\ last' = [op |-> "check_propagation", id |-> id, fetch |-> fetch,
                          committed |-> out.committed, raised |-> out.raised,
                          at |-> now, calls |-> 1]
    /\ UNCHANGED <<causal_network, loader, obs, baselines, signals, now, req, ds, study, bl>>

CheckAgain ==
    /\ last.op = "check_propagation"
    /\ last.calls = 1
    /\ last.at = now
    /\ LET out == check_propagation(props[last.id], now, last.fetch)
       IN  /\ props' = [props EXCEPT ![last.id] = out.result]
           /\ last' = [last EXCEPT !.committed = out.committed, !.raised = out.raised,
                                   !.calls = 2]
    /\ UNCHANGED <<causal_network, loader, obs, baselines, signals, now, req, ds, study, bl>>

----------------------------------------------------------------------------
(* detect_shock called on its own *)

HistValues == {0, 1, 3}

Histories == UNION {[1..k -> HistValues] : k \in 0..MaxHistory}

NoDetect == [value |-> 0, historical_values |-> <<>>, threshold_sd |-> 0,
             absolute_threshold |-> 0, called |-> FALSE, z_score |-> None, is_shock |-> FALSE]

DetectCall ==
    /\ ~ds.called
    /\ \E value \in -3..3, h \in Histories, threshold_sd \in {1, 2}, absolute_threshold \in {1, 2} :
          LET d == detect_shock(value, h, threshold_sd, absolute_threshold)
          IN  ds' = [value |-> value, historical_values |-> h, threshold_sd |-> threshold_sd,
                     absolute_threshold |-> absolute_threshold, called |-> TRUE,
                     z_score |-> d.z_score, is_shock |-> d.is_shock]
    /\ UNCHANGED <<causal_network, loader, obs, baselines, signals, props, now, req, last, study, bl>>

----------------------------------------------------------------------------
(* causal/event_study.py.  A p-value is in thousandths, R^2 in hundredths; *)
(* a log return log(end / start) is kept as the pair <<end, start>>.       *)

MIN_EVENTS_FOR_CAUSAL_TEST == 5

MaxStudyEvents == 7

\* the events that produced a signal for the transform: two of them 5 days
\* apart, the others a month apart
StudyTimestamp(i) == IF i = 1 THEN 0 ELSE IF i = 2 THEN 5 ELSE 30 * (i - 1)

\* lines 38-61: the signals of the transform joined with their events, by
\* timestamp; the event ids are the numbers in ids
StudyEvents(ids) ==
    LET Sorted(S) == [i \in 1..Cardinality(S) |->
                         CHOOSE x \in S : Cardinality({y \in S : y < x}) = i - 1]
        order == Sorted(ids)
    IN  [i \in 1..Len(order) |->
            [event_id |-> order[i], timestamp |-> StudyTimestamp(order[i]),
             surprise |-> (order[i] % 3) - 1]]

\* the join when the event event_id has a second signal of the transform
\* (its signals were computed twice): its row comes twice
WithSecondSignal(study_events, event_id) ==
    LET at == {i \in 1..Len(study_events) : study_events[i].event_id = event_id}
    IN  IF at = {} THEN study_events
        ELSE LET i == CHOOSE x \in at : TRUE
             IN  SubSeq(study_events, 1, i) \o SubSeq(study_events, i, Len(study_events))

\* an event of another type, 5 days after the fourth study event
OtherEvent == [id |-> 0, type |-> "cpi_release", timestamp |-> StudyTimestamp(4) + 5]

\* table events, in row order: the study events, then the others
EventsTable(study_events, others) ==
    [i \in 1..Len(study_events) |->
        [id |-> study_events[i].event_id, type |-> "fed_announcement",
         timestamp |-> study_events[i].timestamp]] \o others

\* the strict form of the test of line 228
_detect_overlapping_exclusive(study_events, buffer_days, events) ==
    LET Collides(ev, other) ==
            other.id # ev.event_id /\ Abs(ev.timestamp - other.timestamp) < buffer_days
        First(ev) == CHOOSE i \in 1..Len(events) :
                        /\ Collides(ev, events[i])
                        /\ \A j \in 1..(i - 1) : ~Collides(ev, events[j])
        confounded == {i \in 1..Len(study_events) :
                          \E j \in 1..Len(events) : Collides(study_events[i], events[j])}
    IN  [id \in {study_events[i].event_id : i \in confounded} |->
            LET ev == CHOOSE e \in Range(study_events) : e.event_id = id
                other == events[First(ev)]
            IN  <<"overlapping with event", other.id, other.type,
                  Abs(ev.timestamp - other.timestamp)>>]

\* an exclusion that drops the later event of a colliding pair only
_detect_overlapping_later(study_events, buffer_days, events) ==
    LET Collides(ev, other) ==
            /\ other.id # ev.event_id
            /\ other.timestamp <= ev.timestamp
            /\ Abs(ev.timestamp - other.timestamp) <= buffer_days
        First(ev) == CHOOSE i \in 1..Len(events) :
                        /\ Collides(ev, events[i])
                        /\ \A j \in 1..(i - 1) : ~Collides(ev, events[j])
        confounded == {i \in 1..Len(study_events) :
                          \E j \in 1..Len(events) : Collides(study_events[i], events[j])}
    IN  [id \in {study_events[i].event_id : i \in confounded} |->
            LET ev == CHOOSE e \in Range(study_events) : e.event_id = id
                other == events[First(ev)]
            IN  <<"overlapping with event", other.id, other.type,
                  Abs(ev.timestamp - other.timestamp)>>]

\* lines 202-235: {event_id: exclusion_reason}; all_events are the rows of
\* table events between the first study event - buffer and the last + buffer
_detect_overlapping_events(study_events, buffer_days, events) ==
    LET earliest == study_events[1].timestamp - buffer_days
        latest == study_events[Len(study_events)].timestamp + buffer_days
        all_events == SelectSeq(events, LAMBDA e : e.timestamp >= earliest /\ e.timestamp <= latest)
        Collides(ev, other) ==
            other.id # ev.event_id /\ Abs(ev.timestamp - other.timestamp) <= buffer_days
        First(ev) == CHOOSE i \in 1..Len(all_events) :
                        /\ Collides(ev, all_events[i])
                        /\ \A j \in 1..(i - 1) : ~Collides(ev, all_events[j])
        confounded == {i \in 1..Len(study_events) :
                          \E j \in 1..Len(all_events) : Collides(study_events[i], all_events[j])}
    IN  [id \in {study_events[i].event_id : i \in confounded} |->
            LET ev == CHOOSE e \in Range(study_events) : e.event_id = id
                other == all_events[First(ev)]
            IN  <<"overlapping with event", other.id, other.type,
                  Abs(ev.timestamp - other.timestamp)>>]

\* what fetch_daily_node_data hands back: a price for every weekday (as
\* pd.bdate_range gives; day 0 is a Monday) of the days around the events,
\* without the days in holes, and a price of zero on the days in zeros
PriceSeries(holes, zeros) ==
    LET days == {d \in (-20)..(StudyTimestamp(MaxStudyEvents) + 20) :
                    (d + 21) % 7 \notin {5, 6} /\ d \notin holes}
    IN  [d \in days |-> IF d \in zeros THEN 0 ELSE 100 + ((d + 20) % 4)]

\* no quote for two weeks from the third study event on
Holes == StudyTimestamp(3)..(StudyTimestamp(3) + 14)

\* a quote of zero in the week before the fifth study event
Zeros == (StudyTimestamp(5) - 10)..(StudyTimestamp(5) - 4)

PriceSeriesSet ==
    {PriceSeries({}, {}), PriceSeries(Holes, {}), PriceSeries({}, Zeros),
     PriceSeries(Holes, Zeros), [d \in {} |-> 0]}

max_search_days == 7

\* a search that stops one day short: range(max_search_days)
_get_nearest_price_short(prices, target_date, direction) ==
    LET check_date(i) == IF direction = "backward" THEN target_date - i ELSE target_date + i
        index == DOMAIN prices
        found == {i \in 0..(max_search_days - 1) : check_date(i) \in index}
    IN  IF found = {} THEN None
        ELSE Some(prices[check_date(CHOOSE i \in found : \A j \in found : i <= j)])

\* lines 272-297: the price of the first day of the index met when walking
\* from target_date in the direction given
_get_nearest_price(prices, target_date, direction) ==
    LET check_date(i) == IF direction = "backward" THEN target_date - i ELSE target_date + i
        index == DOMAIN prices
        found == {i \in 0..max_search_days : check_date(i) \in index}
    IN  IF found = {} THEN None
        ELSE Some(prices[check_date(CHOOSE i \in found : \A j \in found : i <= j)])

\* lines 253-261: the four boundary prices of an event
BoundaryPrices(event_date, prices, pre_window_days, post_window_days, gap_days) ==
    [pre_start |-> _get_nearest_price(prices, event_date - (pre_window_days + gap_days), "backward"),
     pre_end |-> _get_nearest_price(prices, event_date - gap_days, "backward"),
     post_start |-> _get_nearest_price(prices, event_date + gap_days, "forward"),
     post_end |-> _get_nearest_price(prices, event_date + (post_window_days + gap_days), "forward")]

\* the window returns were a price of zero or less let through
_compute_window_returns_missing_only(event_ts, prices, pre_window_days, post_window_days, gap_days) ==
    LET b == BoundaryPrices(event_ts, prices, pre_window_days, post_window_days, gap_days)
    IN  IF \E k \in DOMAIN b : b[k] = None
        THEN [pre_return |-> None, post_return |-> None]
        ELSE [pre_return |-> Some(<<b.pre_end[1], b.pre_start[1]>>),
              post_return |-> Some(<<b.post_end[1], b.post_start[1]>>)]

\* lines 238-269
_compute_window_returns(event_ts, prices, pre_window_days, post_window_days, gap_days) ==
    LET b == BoundaryPrices(event_ts, prices, pre_window_days, post_window_days, gap_days)
    IN  IF \E k \in DOMAIN b : b[k] = None \/ b[k][1] <= 0
        THEN [pre_return |-> None, post_return |-> None]
        ELSE [pre_return |-> Some(<<b.pre_end[1], b.pre_start[1]>>),
              post_return |-> Some(<<b.post_end[1], b.post_start[1]>>)]

\* the verdict were an unavailable placebo counted as one that failed
_assess_confidence_null_fails(reg, pre_drift, zero_surprise, num_events) ==
    LET placebos == <<pre_drift.passed, zero_surprise.passed>>
        placebos_passed == Cardinality({i \in 1..2 : placebos[i] = Some(TRUE)})
    IN  IF reg.p_value < 10 /\ reg.r_squared > 15 /\ num_events >= 10 /\ placebos_passed = 2
        THEN [is_causal |-> TRUE, confidence |-> "high"]
        ELSE IF reg.p_value < 50 /\ num_events >= 7 /\ placebos_passed >= 1
        THEN [is_causal |-> TRUE, confidence |-> "medium"]
        ELSE IF reg.p_value < 100 /\ num_events >= 5
        THEN [is_causal |-> FALSE, confidence |-> "low"]
        ELSE [is_causal |-> FALSE, confidence |-> "none"]

\* lines 378-401
_assess_confidence(reg, pre_drift, zero_surprise, num_events) ==
    LET placebos == <<pre_drift.passed, zero_surprise.passed>>
        placebos_passed == Cardinality({i \in 1..2 : placebos[i] = Some(TRUE)})
        placebos_available == Cardinality({i \in 1..2 : placebos[i] # None})
    IN  IF /\ reg.p_value < 10 /\ reg.r_squared > 15 /\ num_events >= 10
           /\ placebos_passed = placebos_available /\ placebos_available > 0
        THEN [is_causal |-> TRUE, confidence |-> "high"]
        ELSE IF reg.p_value < 50 /\ num_events >= 7 /\ placebos_passed >= 1
        THEN [is_causal |-> TRUE, confidence |-> "medium"]
        ELSE IF reg.p_value < 100 /\ num_events >= 5
        THEN [is_causal |-> FALSE, confidence |-> "low"]
        ELSE [is_causal |-> FALSE, confidence |-> "none"]

\* a population test that only catches the empty population
NoEventsAtAll(count) == count = 0

\* lines 47, 89 and 133
Insufficient(count) == count < MIN_EVENTS_FOR_CAUSAL_TEST

\* what statsmodels fits (lines 300-375): the p-value and R^2 of the
\* dose-response regression, the p-values of the two placebo regressions
\* (the zero-surprise one is None when too few surprises are near zero)
Outcomes ==
    {[p_value |-> p, r_squared |-> 20, pre_drift_pvalue |-> q, zero_surprise_pvalue |-> z] :
        p \in {5, 30}, q \in {30, 60}, z \in {None, Some(60)}}

\* the ids of the rows the overlap exclusion flagged, those flagged for
\* market data left out
overlap_excluded_ids(event_details) ==
    LET excluded == SelectSeq(event_details,
                        LAMBDA d : d.excluded /\ d.exclusion_reason # None
                                   /\ d.exclusion_reason[1] = "overlapping with event")
    IN  [i \in 1..Len(excluded) |-> excluded[i].event_id]

\* line 160: [d["event_id"] for d in event_details if d["excluded"]]
excluded_ids(event_details) ==
    LET excluded == SelectSeq(event_details, LAMBDA d : d.excluded)
    IN  [i \in 1..Len(excluded) |-> excluded[i].event_id]

\* lines 20-193: the exception raised, whether the regression was run, the
\* CausalTestResult added to the session and the local event_details
run_event_study(study_events, events, pre_window_days, post_window_days, gap_days, exclude_overlapping, overlap_buffer_days, significance_level, prices, fit) ==
    LET num_events == Len(study_events)
        Fail(message, details) ==
            [raised |-> message, regressed |-> FALSE, result |-> None, event_details |-> details,
             pre_drift_passed |-> None, zero_surprise_passed |-> None]
        exclusions ==
            IF exclude_overlapping
            THEN _detect_overlapping_events(study_events, overlap_buffer_days, events)
            ELSE [id \in {} |-> None]
        \* lines 71-86
        built == [i \in 1..num_events |->
                     LET ev == study_events[i]
                         excluded == ev.event_id \in DOMAIN exclusions
                     IN  [event_id |-> ev.event_id,
                          event_timestamp |-> ev.timestamp,
                          surprise_value |-> ev.surprise,
                          pre_window_return |-> None,
                          post_window_return |-> None,
                          excluded |-> excluded,
                          exclusion_reason |-> IF excluded THEN exclusions[ev.event_id] ELSE None]]
        included_events == SelectSeq(study_events, LAMBDA ev : ev.event_id \notin DOMAIN exclusions)
        \* lines 110-113: the window returns of each included event (\o <<>>
        \* makes it a list whose entries are worked out once)
        returns == [j \in 1..Len(included_events) |->
                       _compute_window_returns(included_events[j].timestamp, prices,
                                               pre_window_days, post_window_days, gap_days)] \o <<>>
        valid(r) == r.pre_return # None /\ r.post_return # None
        \* lines 114-130
        sample == {j \in 1..Len(included_events) : valid(returns[j])}
        rows(event_id) == {j \in 1..Len(included_events) : included_events[j].event_id = event_id}
        valid_rows(evs) == {j \in evs : valid(returns[j])}
        last_row(valids) == CHOOSE j \in valids : \A k \in valids : k <= j
        \* lines 115-120
        flagged(detail, evs, valids) ==
            IF evs = valids THEN detail
            ELSE [detail EXCEPT !.excluded = TRUE,
                                !.exclusion_reason = <<"insufficient market data in window">>]
        \* lines 126-130
        filled(detail, r) == [detail EXCEPT !.pre_window_return = r.pre_return,
                                            !.post_window_return = r.post_return]
        updated(detail, evs, valids) ==
            IF valids = {} THEN flagged(detail, evs, valids)
            ELSE filled(flagged(detail, evs, valids), returns[last_row(valids)])
        detail_of(detail, evs) == updated(detail, evs, valid_rows(evs))
        event_details == [i \in 1..num_events |-> detail_of(built[i], rows(built[i].event_id))]
        \* lines 132-193
        regressed(num_events_used, details, excluded) ==
            IF Insufficient(num_events_used)
            THEN Fail("Insufficient events with valid market data", details)
            ELSE LET reg == [p_value |-> fit.p_value, r_squared |-> fit.r_squared]
                     pre_drift == [p_value |-> Some(fit.pre_drift_pvalue),
                                   passed |-> Some(fit.pre_drift_pvalue > significance_level)]
                     zero_surprise ==
                         IF fit.zero_surprise_pvalue = None
                         THEN [p_value |-> None, passed |-> None]
                         ELSE [p_value |-> fit.zero_surprise_pvalue,
                               passed |-> Some(fit.zero_surprise_pvalue[1] > significance_level)]
                     verdict == _assess_confidence(reg, pre_drift, zero_surprise, num_events_used)
                 IN  [raised |-> "", regressed |-> TRUE, event_details |-> details,
                      pre_drift_passed |-> pre_drift.passed,
                      zero_surprise_passed |-> zero_surprise.passed,
                      result |-> Some(
                          [pre_window_days |-> pre_window_days,
                           post_window_days |-> post_window_days,
                           gap_days |-> gap_days,
                           num_events |-> num_events,
                           num_events_used |-> num_events_used,
                           num_events_excluded |-> Len(excluded),
                           excluded_event_ids |-> excluded,
                           p_value |-> reg.p_value,
                           r_squared |-> reg.r_squared,
                           placebo_pre_drift_pvalue |-> pre_drift.p_value,
                           placebo_zero_surprise_pvalue |-> zero_surprise.p_value,
                           is_causal |-> verdict.is_causal,
                           confidence_level |-> verdict.confidence,
                           event_details |-> details])]
        with_details(details) == regressed(Cardinality(sample), details, excluded_ids(details))
        with_built(details) ==
            IF Insufficient(Len(included_events))
            THEN Fail("Insufficient events after exclusions", details)
            ELSE IF DOMAIN prices = {} THEN Fail("No market data available", details)
            ELSE with_details(event_details)
    IN  IF Insufficient(num_events) THEN Fail("Insufficient events", <<>>)
        ELSE with_built(built)

----------------------------------------------------------------------------
(* api/causal_tests.py: POST /causal-tests/run, and _assess_confidence     *)
(* called on its own                                                       *)

NoStudy == [called |-> FALSE]

\* the populations studied: with or without the pair of events 5 days
\* apart, and with a second signal for the third event (0: for none)
StudyShapes ==
    {[pair |-> TRUE, second |-> 0], [pair |-> FALSE, second |-> 0],
     [pair |-> FALSE, second |-> 3]}

\* lines 76-101: one request; causal_test_results is the table afterwards
run_causal_test ==
    /\ ~study.called
    /\ \E k \in 4..MaxStudyEvents, shape \in StudyShapes, others \in {<<>>, <<OtherEvent>>},
          exclude_overlapping \in BOOLEAN, overlap_buffer_days \in {4, 5, 10},
          gap_days \in {0, 1}, prices \in PriceSeriesSet, fit \in Outcomes :
          LET joined == StudyEvents((1..k) \ (IF shape.pair THEN {} ELSE {2}))
              study_events == WithSecondSignal(joined, shape.second)
              events == EventsTable(joined, others)
              out == run_event_study(study_events, events, 5, 5, gap_days, exclude_overlapping,
                                     overlap_buffer_days, 50, prices, fit)
          IN  study' = [called |-> TRUE, op |-> "run_event_study",
                        study_events |-> study_events, events |-> events,
                        gap_days |-> gap_days,
                        exclude_overlapping |-> exclude_overlapping,
                        overlap_buffer_days |-> overlap_buffer_days,
                        prices |-> prices,
                        status |-> IF out.raised = "" THEN 200 ELSE 400,
                        detail |-> out.raised,
                        regressed |-> out.regressed,
                        event_details |-> out.event_details,
                        causal_test_results |-> out.result]
    /\ UNCHANGED <<causal_network, loader, obs, baselines, signals, props, now, req, last, ds, bl>>

\* _assess_confidence on the results of a regression and two placebo tests
assess_confidence_call ==
    /\ ~study.called
    /\ \E p_value \in {9, 10, 49, 50, 99, 100}, r_squared \in {15, 16},
          num_events \in 4..(MaxStudyEvents + 3),
          pre_passed \in {None, Some(TRUE), Some(FALSE)},
          zero_passed \in {None, Some(TRUE), Some(FALSE)} :
          LET verdict == _assess_confidence([p_value |-> p_value, r_squared |-> r_squared],
                                            [passed |-> pre_passed], [passed |-> zero_passed],
                                            num_events)
          IN  study' = [called |-> TRUE, op |-> "_assess_confidence",
                        p_value |-> p_value, r_squared |-> r_squared,
                        num_events |-> num_events,
                        pre_passed |-> pre_passed, zero_passed |-> zero_passed,
                        is_causal |-> verdict.is_causal, confidence |-> verdict.confidence]
    /\ UNCHANGED <<causal_network, loader, obs, baselines, signals, props, now, req, last, ds, bl>>

\* config.py line 17, in thousandths
CAUSAL_SIGNIFICANCE_LEVEL == 50

\* api/causal_tests.py lines 36-51 and 69-70: the placebo block and the
\* verdict of the response built from a stored result
_build_response(result) ==
    [placebo |->
        [pre_drift_p_value |-> result.placebo_pre_drift_pvalue,
         pre_drift_passed |->
             IF result.placebo_pre_drift_pvalue # None
             THEN Some(result.placebo_pre_drift_pvalue[1] > CAUSAL_SIGNIFICANCE_LEVEL)
             ELSE None,
         zero_surprise_p_value |-> result.placebo_zero_surprise_pvalue,
         zero_surprise_passed |->
             IF result.placebo_zero_surprise_pvalue # None
             THEN Some(result.placebo_zero_surprise_pvalue[1] > CAUSAL_SIGNIFICANCE_LEVEL)
             ELSE None],
     is_causal |-> result.is_causal,
     confidence_level |-> result.confidence_level]

\* the confidence_level a request may carry: 0.01, 0.05 (the default), 0.10
SignificanceLevels == {10, 50, 100}

\* lines 76-101 for a request that names its confidence_level: the study
\* is run and the response built from the stored result
post_causal_tests_run ==
    /\ ~study.called
    /\ \E k \in 5..MaxStudyEvents, gap_days \in {0, 1}, prices \in PriceSeriesSet,
          confidence_level \in SignificanceLevels, fit \in Outcomes :
          LET study_events == StudyEvents((1..k) \ {2})
              events == EventsTable(study_events, <<>>)
              out == run_event_study(study_events, events, 5, 5, gap_days, TRUE, 10,
                                     confidence_level, prices, fit)
          IN  study' = [called |-> TRUE, op |-> "run_causal_test",
                        study_events |-> study_events,
                        gap_days |-> gap_days, prices |-> prices,
                        confidence_level |-> confidence_level,
                        status |-> IF out.raised = "" THEN 200 ELSE 400,
                        detail |-> out.raised,
                        pre_drift_passed |-> out.pre_drift_passed,
                        zero_surprise_passed |-> out.zero_surprise_passed,
                        causal_test_results |-> out.result,
                        response |-> IF out.raised = ""
                                     THEN Some(_build_response(out.result[1])) ELSE None]
    /\ UNCHANGED <<causal_network, loader, obs, baselines, signals, props, now, req, last, ds, bl>>

\* _compute_window_returns on its own, for an event on any day of the
\* weeks around the third study event
compute_window_returns_call ==
    /\ ~study.called
    /\ \E event_date \in (StudyTimestamp(3) - 15)..(StudyTimestamp(3) + 30),
          prices \in PriceSeriesSet, gap_days \in {0, 1} :
          LET out == _compute_window_returns(event_date, prices, 5, 5, gap_days)
          IN  study' = [called |-> TRUE, op |-> "_compute_window_returns",
                        event_date |-> event_date, prices |-> prices,
                        pre_window_days |-> 5, post_window_days |-> 5,
                        gap_days |-> gap_days,
                        boundary |-> BoundaryPrices(event_date, prices, 5, 5, gap_days),
                        pre_return |-> out.pre_return, post_return |-> out.post_return]
    /\ UNCHANGED <<causal_network, loader, obs, baselines, signals, props, now, req, last, ds, bl>>

----------------------------------------------------------------------------
(* Specifications *)

\* the process as first imported: empty graph, no baselines, empty tables
InitModule ==
    /\ causal_network = EmptyGraph
    /\ loader = LoaderIdle
    /\ obs = NoObs
    /\ baselines = NoBaselines
    /\ signals = <<>>
    /\ props = <<>>
    /\ now = 0
    /\ req = [w \in Workers |-> Idle]
    /\ last = NoCall
    /\ ds = NoDetect
    /\ study = NoStudy
    /\ bl = NoReload

\* the signals table after POST /signals/compute for e1, e2 and e3
RECURSIVE Computed(_)
Computed(event_ids) ==
    IF event_ids = <<>> THEN <<>>
    ELSE LET table == Computed(SubSeq(event_ids, 1, Len(event_ids) - 1))
         IN  table \o WithIds(table, compute_signals_for_event(table,
                                         EventById(event_ids[Len(event_ids)])))

\* the service once app.lifespan has run load_network on the configured
\* file (a missing file leaves the graph empty), baselines were loaded or
\* not, and the signals of the three events were computed
Init ==
    /\ causal_network \in {ParseSource(src).graph : src \in {GrangerCsv, NetworkGraphml, MissingFile}}
    /\ loader = LoaderIdle
    /\ obs = NoObs
    /\ baselines \in {NoBaselines, IrfBaselines}
    /\ signals = Computed(<<"e1", "e2", "e3">>)
    /\ props = <<>>
    /\ now = 0
    /\ req = [w \in Workers |-> Idle]
    /\ last = NoCall
    /\ ds = NoDetect
    /\ study = NoStudy
    /\ bl = NoReload

\* the service handling one request after the other while time passes
Next ==
    \/ \E w \in OneWorker : get_shock_propagation(w)
    \/ \E w \in OneWorker : check_shock_propagation(w)
    \/ \E w \in OneWorker : create_propagation_monitors(w)
    \/ \E w \in OneWorker : CheckNext(w)
    \/ Tick

Spec == Init /\ [][Next]_vars

\* the service handling requests on two threads of the pool at once
NextPool ==
    \/ \E w \in Workers : get_shock_propagation(w)
    \/ \E w \in Workers : check_shock_propagation(w)
    \/ \E w \in Workers : create_propagation_monitors(w)
    \/ \E w \in Workers : CheckNext(w)

SpecPool == Init /\ [][NextPool]_vars

\* the graph being reloaded while other threads read it
NextGraph ==
    \/ load_network
    \/ ReadNode
    \/ ReadPair
    \/ ReadAll

SpecGraph == InitModule /\ [][NextGraph]_vars

\* the signals of events being computed, again and again
NextSignals == \E e \in EventIds : compute_signals(e)

SpecSignals == InitModule /\ [][NextSignals]_vars

\* detect_shock as a pure function of its arguments
NextDetect == DetectCall

SpecDetect == InitModule /\ [][NextDetect]_vars

\* the service with the monitors of the first shock created
InitTwice ==
    /\ causal_network \in {ParseSource(src).graph : src \in {GrangerCsv, NetworkGraphml}}
    /\ loader = LoaderIdle
    /\ obs = NoObs
    /\ baselines \in {NoBaselines, IrfBaselines}
    /\ signals = Computed(<<"e1", "e2", "e3">>)
    /\ props = LET down == get_downstream_nodes(causal_network, "A")
               IN  WithIds(<<>>, [i \in 1..Len(down) |->
                                     NewMonitor(causal_network, baselines, signals[1],
                                                "A", down[i])])
    /\ now = 0
    /\ req = [w \in Workers |-> Idle]
    /\ last = NoCall
    /\ ds = NoDetect
    /\ study = NoStudy
    /\ bl = NoReload

\* records checked, some of them twice in a row, while time passes
NextTwice ==
    \/ CheckFirst
    \/ CheckAgain
    \/ Tick

SpecTwice == InitTwice /\ [][NextTwice]_vars

\* one event study run on a population of events
NextStudy == run_causal_test

SpecStudy == InitModule /\ [][NextStudy]_vars

\* _assess_confidence as a pure function of its arguments
NextConfidence == assess_confidence_call

SpecConfidence == InitModule /\ [][NextConfidence]_vars

\* the baselines being reloaded while other threads look responses up
NextBaselines ==
    \/ load_baselines
    \/ direction_lookup
    \/ response_lookup

SpecBaselines == InitModule /\ [][NextBaselines]_vars

\* the window returns of one event
NextWindow == compute_window_returns_call

SpecWindow == InitModule /\ [][NextWindow]_vars

\* monitors being created for shocks while the graph is reloaded
NextReload ==
    \/ load_network
    \/ \E w \in OneWorker : get_shock_propagation(w)
    \/ \E w \in OneWorker : create_propagation_monitors(w)

SpecReload == Init /\ [][NextReload]_vars

\* one causal test requested at a significance level of the caller's
NextResponse == post_causal_tests_run

SpecResponse == InitModule /\ [][NextResponse]_vars

----------------------------------------------------------------------------
(* Properties *)

\* the step is worker w's check_propagation call returning
CheckStep(w) == req[w].pc = "check" /\ req'[w] # req[w]

\* the step is worker w's create_propagation_monitors call returning
CreateStep(w) == req[w].pc = "build" /\ req'[w].pc # "build"

Checked(w) == Head(req[w].results)

LastRecord == props[last.id]

\* C1: whatever a reader is handed while load_network runs is what the same
\* call returns on the complete graph from before the reload or on the
\* complete graph being installed
C1_ReadersSeeWholeGraph ==
    obs.fn # "none" =>
        obs.result \in ReadResults(obs.pre, obs.fn, obs.a, obs.b)
                       \cup ReadResults(obs.post, obs.fn, obs.a, obs.b)

\* C2: a record whose status is completed or no_response keeps that status
\* in every later step
C2_TerminalStatusKept ==
    [][\A i \in 1..Len(props) :
          props[i].status \in {"completed", "no_response"}
              => props'[i].status = props[i].status]_vars

\* C3: a check whose fetch returns no data points leaves the record as it
\* was when now <= monitored_until, and otherwise changes the status alone,
\* to no_response; the status therefore changes only on the first such check
C3_NoDataCheck ==
    [][\A w \in Workers :
          CheckStep(w) /\ last'.fetch = FetchOk(<<>>) =>
              LET before == props[Checked(w)]
                  after == props'[Checked(w)]
              IN  /\ now <= before.monitored_until[1] =>
                        after = before /\ ~last'.committed
                  /\ now > before.monitored_until[1] =>
                        after = [before EXCEPT !.status = "no_response"]
                  /\ before.status = "no_response" => after = before]_vars

C3_Witness ==
    /\ last.op = "check_propagation"
    /\ last.fetch = FetchOk(<<>>)
    /\ now > LastRecord.monitored_until[1]
    /\ LastRecord.status = "no_response"
    /\ LastRecord.actual_change = None

\* C4: a check whose fetch raises leaves the whole table as it was, commits
\* nothing and lets no exception through
C4_FetchErrorCheck ==
    [][\A w \in Workers :
          CheckStep(w) /\ ~last'.fetch.ok =>
              /\ props' = props
              /\ ~last'.committed
              /\ last'.raised = ""]_vars

C4_Witness ==
    /\ last.op = "check_propagation"
    /\ ~last.fetch.ok
    /\ now > LastRecord.monitored_until[1]
    /\ LastRecord.status = "monitoring"
    /\ LastRecord.actual_change # None

\* C5: after a check whose fetch returns data the status is completed when
\* now >= monitored_until and monitoring otherwise
C5_StatusAfterData ==
    [][\A w \in Workers :
          CheckStep(w) /\ last'.fetch.ok /\ last'.fetch.data # <<>> =>
              props'[Checked(w)].status =
                  IF now >= props[Checked(w)].monitored_until[1]
                  THEN "completed" ELSE "monitoring"]_vars

C5_Witness ==
    /\ last.op = "check_propagation"
    /\ last.fetch.ok /\ last.fetch.data # <<>>
    /\ now = LastRecord.monitored_until[1]
    /\ LastRecord.status = "completed"

EdgeLag(g, source, target) ==
    LET e == CHOOSE x \in Range(g.edges) : x.source = source /\ x.target = target
    IN  IF e.lag = None THEN 1 ELSE e.lag[1]

\* C7: create_propagation_monitors appends one monitoring record per
\* downstream node of the shock's node, in order, with the edge's lag and
\* the window [timestamp, timestamp + lag + buffer weeks], and leaves the
\* table as it was when there is no downstream node
C7_OneMonitorPerDownstream ==
    [][\A w \in Workers :
          CreateStep(w) =>
              LET signal == req[w].signal[1]
                  source == (CHOOSE t \in Range(SignalTransforms) :
                                t.id = signal.transform_id).node_mapping
                  down == get_downstream_nodes(causal_network, source)
              IN  /\ Len(props') = Len(props) + Len(down)
                  /\ SubSeq(props', 1, Len(props)) = props
                  /\ last'.created = Len(down)
                  /\ \A i \in 1..Len(down) :
                        LET r == props'[Len(props) + i]
                            lag == EdgeLag(causal_network, source, down[i])
                        IN  /\ r.signal_id = signal.id
                            /\ r.source_node = source
                            /\ r.target_node = down[i]
                            /\ r.status = "monitoring"
                            /\ r.expected_lag_weeks = lag
                            /\ r.monitored_from = signal.timestamp
                            /\ r.monitored_until =
                                  Some(signal.timestamp
                                       + 7 * (lag + PROPAGATION_BUFFER_WEEKS))]_vars

C7_Witness ==
    /\ last.op = "create_propagation_monitors"
    /\ last.created = 2
    /\ Len(props) = 2
    /\ props[1].target_node = "B" /\ props[1].monitored_until = Some(21)
    /\ props[2].target_node = "C" /\ props[2].monitored_until = Some(28)

\* C8: no two records have the same signal_id and target_node
C8_OneRecordPerEdge ==
    \A i, j \in 1..Len(props) :
        i # j => ~(props[i].signal_id = props[j].signal_id
                   /\ props[i].target_node = props[j].target_node)

\* C9: no two signals have the same event and transform, and a signal once
\* created keeps its value, z_score and is_shock
C9_OneSignalPerEventTransform ==
    /\ [](\A i, j \in 1..Len(signals) :
            i # j => ~(signals[i].event_id = signals[j].event_id
                       /\ signals[i].transform_id = signals[j].transform_id))
    /\ [][\A i \in 1..Len(signals) : signals'[i] = signals[i]]_vars

\* C10: with fewer than 5 historical values detect_shock returns no z-score
\* and is_shock = (|value| > absolute_threshold)
C10_ShortHistory ==
    ds.called /\ Len(ds.historical_values) < 5 =>
        /\ ds.z_score = None
        /\ ds.is_shock = (Abs(ds.value) > ds.absolute_threshold)

C10_Witness ==
    /\ ds.called
    /\ Len(ds.historical_values) = 4
    /\ ScaledVariance(ds.historical_values) # 0
    /\ ds.threshold_sd = 2
    /\ Abs(ds.value) = ds.absolute_threshold
    /\ ds.z_score = None
    /\ ~ds.is_shock

\* C11: with 5 or more historical values detect_shock falls back to the
\* absolute rule, without a z-score, exactly when all the values are equal
\* (their standard deviation is zero); otherwise it returns the z-score
\* (value - mean) / std and is_shock = (|z| > threshold_sd), strictly
C11_LongHistory ==
    ds.called /\ Len(ds.historical_values) >= 5 =>
        LET xs == ds.historical_values
            n == Len(xs)
            total == Sum(xs)
            \* n (value - mean), and n^2 (n-1) std^2 as the sum of the squared
            \* deviations from the mean
            dev == n * ds.value - total
            devsq == Sum([i \in 1..n |-> (n * xs[i] - total) * (n * xs[i] - total)])
        IN  IF \A i, j \in 1..n : xs[i] = xs[j]
            THEN /\ ds.z_score = None
                 /\ ds.is_shock = (Abs(ds.value) > ds.absolute_threshold)
            ELSE /\ ds.z_score # None
                 /\ LET z == ds.z_score[1]
                    IN  /\ z.var > 0
                        /\ z.dev * z.dev * (z.n - 1) * devsq = dev * dev * (n - 1) * z.n * z.var
                        /\ (z.dev > 0) = (dev > 0)
                 /\ ds.is_shock =
                        (dev * dev * (n - 1) > ds.threshold_sd * ds.threshold_sd * devsq)

C11_Witness ==
    /\ ds.called
    /\ Len(ds.historical_values) = 5
    /\ \A i \in 1..5 : ds.historical_values[i] = 3
    /\ ds.value = 3
    /\ ds.absolute_threshold = 2
    /\ ds.z_score = None
    /\ ds.is_shock

\* the nodes a walk of at most k edges from source ends at
RECURSIVE ReachWithin(_, _, _)
ReachWithin(g, source, k) ==
    IF k = 0 THEN {source}
    ELSE LET r == ReachWithin(g, source, k - 1)
         IN  r \cup {g.edges[i].target : i \in {j \in 1..Len(g.edges) : g.edges[j].source \in r}}

\* the step is a reader of the graph returning
ReadStep == obs' # obs

\* C12: on any graph the loader leaves behind, the empty one included, a
\* reader asked about a node that is not in the graph returns the empty
\* list (downstream, upstream) or null (edge info, path); the path is null
\* as well when the target cannot be reached from the source
C12_AbsentNodeReads ==
    [][ReadStep =>
          LET g == causal_network
              r == obs'
              absent(n) == \A i \in 1..Len(g.nodes) : g.nodes[i] # n
          IN  /\ r.fn \in {"get_downstream_nodes", "get_upstream_nodes"} /\ absent(r.a)
                    => r.result = <<>>
              /\ r.fn = "get_edge_info" /\ (absent(r.a) \/ absent(r.b))
                    => r.result = None
              /\ r.fn = "get_transmission_path"
                    /\ (absent(r.a) \/ absent(r.b)
                        \/ r.b \notin ReachWithin(g, r.a, Len(g.nodes)))
                    => r.result = None]_vars

C12_Witness ==
    /\ obs.fn = "get_downstream_nodes"
    /\ obs.a = "Z"
    /\ obs.result = <<>>
    /\ Len(causal_network.nodes) = 3
    /\ Len(causal_network.edges) = 3

\* load_network has returned from loading the rows A->B, A->C, B->C
LoadedRunningExample ==
    /\ loader.pc = "idle"
    /\ loader.error = ""
    /\ {<<loader.loaded.edges[i].source, loader.loaded.edges[i].target>> :
            i \in 1..Len(loader.loaded.edges)}
           = {<<"A", "B">>, <<"A", "C">>, <<"B", "C">>}

\* C13: once the rows A->B, A->C, B->C are loaded, downstream(A) is {B, C},
\* upstream(C) is {A, B} and the path from A to C is the direct edge; and
\* whatever path get_transmission_path returns, on any graph, is a directed
\* path from source to target that no walk with fewer edges beats
C13_ShortestPath ==
    /\ [](LoadedRunningExample =>
            /\ Range(get_downstream_nodes(causal_network, "A")) = {"B", "C"}
            /\ Range(get_upstream_nodes(causal_network, "C")) = {"A", "B"}
            /\ get_transmission_path(causal_network, "A", "C") = {Some(<<"A", "C">>)})
    /\ [][ReadStep /\ obs'.fn = "get_transmission_path" /\ obs'.result # None =>
            LET g == causal_network
                p == obs'.result[1]
            IN  /\ p[1] = obs'.a
                /\ p[Len(p)] = obs'.b
                /\ \A i \in 1..(Len(p) - 1) :
                      \E j \in 1..Len(g.edges) :
                          g.edges[j].source = p[i] /\ g.edges[j].target = p[i + 1]
                /\ Len(p) > 1 => obs'.b \notin ReachWithin(g, obs'.a, Len(p) - 2)]_vars

C13_Witness ==
    /\ LoadedRunningExample
    /\ obs.fn = "get_transmission_path"
    /\ obs.a = "A"
    /\ obs.b = "C"
    /\ obs.result = Some(<<"A", "C">>)
    /\ ~obs.during
    /\ Len(causal_network.edges) = 3

\* C14: a load_network call that fails (no such file, a suffix that is
\* neither .graphml nor .csv, a CSV row that does not parse) raises
\* FileNotFoundError or ValueError and leaves the shared graph as it was
C14_FailedLoadKeepsGraph ==
    [][loader.pc = "idle" /\ loader'.pc = "idle" /\ loader' # loader /\ loader'.error # "" =>
          /\ causal_network' = causal_network
          /\ loader'.error \in {"FileNotFoundError", "ValueError",
                                "ValueError: invalid literal for int()"}]_vars

C14_Witness ==
    /\ loader.pc = "idle"
    /\ loader.error = "ValueError: invalid literal for int()"
    /\ Len(causal_network.nodes) = 3
    /\ Len(causal_network.edges) = 3

\* the study event has another event of table events within the buffer
Confounded(ev) ==
    \E i \in 1..Len(study.events) :
        /\ study.events[i].id # ev.event_id
        /\ study.events[i].timestamp - ev.timestamp <= study.overlap_buffer_days
        /\ ev.timestamp - study.events[i].timestamp <= study.overlap_buffer_days

\* walking from day in steps of step, the first quoted day within a week
\* has a price above zero
PositiveQuote(day, step) ==
    \E i \in 0..7 :
        /\ day + step * i \in DOMAIN study.prices
        /\ \A j \in 0..(i - 1) : day + step * j \notin DOMAIN study.prices
        /\ study.prices[day + step * i] > 0

\* the four boundary prices of the windows (5 days each) are there
HasMarketData(ev) ==
    /\ PositiveQuote(ev.timestamp - (5 + study.gap_days), -1)
    /\ PositiveQuote(ev.timestamp - study.gap_days, -1)
    /\ PositiveQuote(ev.timestamp + study.gap_days, 1)
    /\ PositiveQuote(ev.timestamp + (5 + study.gap_days), 1)

\* the study events left after the overlap exclusion, and those of them
\* with market data, as positions in study_events
Survivors ==
    {i \in 1..Len(study.study_events) :
        ~(study.exclude_overlapping /\ Confounded(study.study_events[i]))}

Priced == {i \in Survivors : HasMarketData(study.study_events[i])}

\* C15: a run whose population, survivors of the overlap exclusion or
\* events with market data number fewer than 5 is refused (ValueError, 400,
\* "Insufficient events ..." whenever prices were returned) with no
\* regression run and no CausalTestResult stored
C15_InsufficientData ==
    study.called =>
        LET raw == Len(study.study_events)
        IN  /\ raw < 5 \/ Cardinality(Survivors) < 5 \/ Cardinality(Priced) < 5 =>
                  /\ study.status = 400
                  /\ ~study.regressed
                  /\ study.causal_test_results = None
            /\ raw < 5 => study.detail = "Insufficient events"
            /\ raw >= 5 /\ Cardinality(Survivors) < 5 =>
                  study.detail = "Insufficient events after exclusions"
            /\ raw >= 5 /\ Cardinality(Survivors) >= 5 /\ Cardinality(Priced) < 5
                  /\ DOMAIN study.prices # {} =>
                  study.detail = "Insufficient events with valid market data"

C15_Witness ==
    /\ study.called
    /\ Len(study.study_events) = 6
    /\ Cardinality(Survivors) = 6
    /\ Cardinality(Priced) = 4
    /\ study.status = 400
    /\ study.detail = "Insufficient events with valid market data"
    /\ study.causal_test_results = None

\* the detail row of a study event says it was excluded for overlap
ExcludedForOverlap(d) ==
    /\ d.excluded
    /\ d.exclusion_reason # None
    /\ d.exclusion_reason[1] = "overlapping with event"

\* study events i and j are 5 days apart and no other event of table
\* events is within 10 days of either
LonePair(i, j) ==
    LET a == study.study_events[i]
        b == study.study_events[j]
    IN  /\ b.timestamp - a.timestamp = 5
        /\ \A k \in 1..Len(study.events) :
              LET e == study.events[k]
              IN  e.id \notin {a.event_id, b.event_id} =>
                      /\ Abs(e.timestamp - a.timestamp) > 10
                      /\ Abs(e.timestamp - b.timestamp) > 10

\* the run built its detail rows with overlap exclusion on, buffer 10
ExcludingWithBuffer10 ==
    /\ study.called
    /\ study.exclude_overlapping
    /\ study.overlap_buffer_days = 10
    /\ Len(study.event_details) = Len(study.study_events)

\* C16 as stated: of two study events 5 days apart, with a buffer of 10 days
\* and no other event near, exactly one is excluded, so that
\* num_events_used is at least 1 below num_events
C16_ExactlyOneOfPair ==
    ExcludingWithBuffer10 =>
        \A i, j \in 1..Len(study.study_events) :
            LonePair(i, j) =>
                /\ ExcludedForOverlap(study.event_details[i])
                       # ExcludedForOverlap(study.event_details[j])
                /\ study.causal_test_results # None =>
                       study.causal_test_results[1].num_events_used
                           <= study.causal_test_results[1].num_events - 1

\* C16 amended: both events of the pair are excluded, each citing the other,
\* so that num_events_used is at least 2 below num_events
C16_BothOfPairExcluded ==
    ExcludingWithBuffer10 =>
        \A i, j \in 1..Len(study.study_events) :
            LonePair(i, j) =>
                /\ ExcludedForOverlap(study.event_details[i])
                /\ ExcludedForOverlap(study.event_details[j])
                /\ study.event_details[i].exclusion_reason[2] = study.study_events[j].event_id
                /\ study.event_details[j].exclusion_reason[2] = study.study_events[i].event_id
                /\ study.causal_test_results # None =>
                       study.causal_test_results[1].num_events_used
                           <= study.causal_test_results[1].num_events - 2

C16_Witness ==
    /\ ExcludingWithBuffer10
    /\ LonePair(1, 2)
    /\ study.status = 200
    /\ study.causal_test_results[1].num_events = 7
    /\ study.causal_test_results[1].num_events_used = 5
    /\ study.causal_test_results[1].excluded_event_ids = <<1, 2>>

\* C17: in the detail rows a run builds, a study event is excluded for
\* overlap exactly when exclude_overlapping is on and an event with another
\* id, of any type, is at most overlap_buffer_days away; the reason never
\* cites the event itself
C17_ExcludedIffOverlap ==
    study.called /\ Len(study.event_details) = Len(study.study_events) =>
        \A i \in 1..Len(study.study_events) :
            LET d == study.event_details[i]
                ev == study.study_events[i]
            IN  /\ d.event_id = ev.event_id
                /\ ExcludedForOverlap(d) <=> (study.exclude_overlapping /\ Confounded(ev))
                /\ ExcludedForOverlap(d) => d.exclusion_reason[2] # ev.event_id
                /\ ~study.exclude_overlapping =>
                       d.exclusion_reason \in {None, <<"insufficient market data in window">>}

C17_Witness ==
    /\ study.called
    /\ study.exclude_overlapping
    /\ study.overlap_buffer_days = 5
    /\ Len(study.event_details) = 7
    /\ study.event_details[1].exclusion_reason = <<"overlapping with event", 2, "fed_announcement", 5>>
    /\ study.event_details[4].exclusion_reason = <<"overlapping with event", 0, "cpi_release", 5>>
    /\ ~study.event_details[3].excluded

\* C18: once the window returns were computed, every study event has its
\* detail row; a survivor of the overlap exclusion lacking one of its four
\* boundary prices, or having one that is zero or less, is excluded with
\* the reason "insufficient market data in window" and without returns,
\* the other survivors carry their returns, and the regression sample is
\* the survivors with market data
C18_MarketDataExclusion ==
    study.called /\ study.detail \in {"", "Insufficient events with valid market data"} =>
        /\ Len(study.event_details) = Len(study.study_events)
        /\ \A i \in 1..Len(study.study_events) :
              LET d == study.event_details[i]
              IN  /\ d.event_id = study.study_events[i].event_id
                  /\ i \in Survivors \ Priced =>
                        /\ d.excluded
                        /\ d.exclusion_reason = <<"insufficient market data in window">>
                        /\ d.pre_window_return = None
                        /\ d.post_window_return = None
                  /\ i \in Priced =>
                        /\ ~d.excluded
                        /\ d.exclusion_reason = None
                        /\ d.pre_window_return # None
                        /\ d.post_window_return # None
        /\ study.causal_test_results # None =>
              LET result == study.causal_test_results[1]
              IN  /\ result.event_details = study.event_details
                  /\ result.num_events_used = Cardinality(Priced)
                  /\ \A i \in Survivors \ Priced :
                        \E k \in 1..Len(result.excluded_event_ids) :
                            result.excluded_event_ids[k] = study.study_events[i].event_id

C18_Witness ==
    /\ study.called
    /\ study.status = 200
    /\ Len(study.study_events) = 6
    /\ Survivors \ Priced = {4}
    /\ study.study_events[4].event_id = 5
    /\ study.prices[StudyTimestamp(5) - 5] = 0
    /\ study.causal_test_results[1].num_events_used = 5
    /\ study.causal_test_results[1].excluded_event_ids = <<5>>
    /\ study.causal_test_results[1].event_details[4].exclusion_reason
           = <<"insufficient market data in window">>

\* C19: the verdict is high iff p < 0.01, R^2 > 0.15, 10 or more events,
\* some placebo available and none available failed; else medium iff
\* p < 0.05, 7 or more events and some placebo passed; else low iff p < 0.10
\* and 5 or more events; else none; is_causal is true for high and medium
C19_ConfidenceTiers ==
    study.called /\ study.op = "_assess_confidence" =>
        LET flags == {study.pre_passed, study.zero_passed}
            high == /\ study.p_value < 10
                    /\ study.r_squared > 15
                    /\ study.num_events >= 10
                    /\ flags # {None}
                    /\ Some(FALSE) \notin flags
            medium == /\ ~high
                      /\ study.p_value < 50
                      /\ study.num_events >= 7
                      /\ Some(TRUE) \in flags
            low == ~high /\ ~medium /\ study.p_value < 100 /\ study.num_events >= 5
        IN  /\ (study.confidence = "high") = high
            /\ (study.confidence = "medium") = medium
            /\ (study.confidence = "low") = low
            /\ (study.confidence = "none") = (~high /\ ~medium /\ ~low)
            /\ study.is_causal = (study.confidence \in {"high", "medium"})

C19_Witness ==
    /\ study.called
    /\ study.op = "_assess_confidence"
    /\ study.p_value = 9
    /\ study.r_squared = 16
    /\ study.num_events = 10
    /\ study.pre_passed = Some(TRUE)
    /\ study.zero_passed = None
    /\ study.confidence = "high"
    /\ study.is_causal

\* C20: a check repeated at once on the same record, the provider returning
\* what it returned the first time, leaves actual_change and
\* propagation_matched as the first check left them
C20_SecondCheckSameResult ==
    [][last.op = "check_propagation" /\ last.calls = 1 /\ last'.calls = 2 =>
          /\ props'[last.id].actual_change = props[last.id].actual_change
          /\ props'[last.id].propagation_matched = props[last.id].propagation_matched]_vars

C20_Witness ==
    /\ last.op = "check_propagation"
    /\ last.calls = 2
    /\ last.fetch = FetchOk(<<3, 1>>)
    /\ props[last.id].expected_direction = "negative"
    /\ props[last.id].actual_change = Some(-2)
    /\ props[last.id].propagation_matched = Some(TRUE)
    /\ props[last.id].status = "completed"

\* C21: a lookup raises nothing, hands back None when the mapping holds no
\* entry for the pair, and get_expected_response hands back a value only for
\* 0 <= lag < length of the curve, the curve's entry at index lag
C21_LookupsNeverRaise ==
    bl.call.fn # "none" =>
        LET c == bl.call
            pair == <<c.source_node, c.target_node>>
            known == pair \in DOMAIN c.seen
        IN  /\ c.raised = ""
            /\ ~known => c.value = None
            /\ c.fn = "get_expected_response" /\ c.value # None =>
                  /\ known
                  /\ 0 <= c.lag /\ c.lag < Len(c.seen[pair].responses)
                  /\ c.value = Some(c.seen[pair].responses[c.lag + 1])

\* C22: what a lookup hands back while a reload is in flight is what the
\* same call hands back on the whole mapping from before the reload or on
\* the whole mapping the reload installs, and a reload that raised (file
\* missing, file not parsable) has left the mapping as it was
C22_BaselinesSwappedWhole ==
    /\ bl.call.fn # "none" =>
          LET c == bl.call
          IN  [raised |-> c.raised, value |-> c.value]
                  \in {Lookup(c.pre, c.fn, c.source_node, c.target_node, c.lag),
                       Lookup(c.post, c.fn, c.source_node, c.target_node, c.lag)}
    /\ bl.pc = "idle" /\ bl.error # "" => baselines = bl.pre

C22_Witness ==
    /\ bl.call.during
    /\ bl.call.fn = "get_expected_response"
    /\ bl.call.pre = IrfBaselines
    /\ bl.call.post = IrfJsonRevised.content
    /\ bl.call.value = Some(5)
    /\ bl.pc = "idle"
    /\ bl.error = "JSONDecodeError"
    /\ baselines = IrfJsonRevised.content

\* the price met first when stepping from target by step (-1 backward, +1
\* forward) over target, target + step, ..., target + 7 * step
FirstQuoted(prices, target, step) ==
    LET quoted == {k \in 0..7 : target + step * k \in DOMAIN prices}
    IN  IF quoted = {} THEN None
        ELSE LET k == CHOOSE x \in quoted : \A y \in quoted : x <= y
             IN  Some(prices[target + step * k])

\* C23: each boundary price is the price of the first of the 8 dates from
\* the boundary date outward that has one, None when none of them has;
\* the two pre-window boundaries are searched backward, the two post-window
\* ones forward
C23_NearestPrice ==
    study.called /\ study.op = "_compute_window_returns" =>
        LET e == study.event_date
            g == study.gap_days
            b == study.boundary
        IN  /\ b.pre_start = FirstQuoted(study.prices, e - (study.pre_window_days + g), -1)
            /\ b.pre_end = FirstQuoted(study.prices, e - g, -1)
            /\ b.post_start = FirstQuoted(study.prices, e + g, 1)
            /\ b.post_end = FirstQuoted(study.prices, e + (study.post_window_days + g), 1)

\* the pre-window start falls in the gap of the series and finds the quote
\* of 7 days before, the pre-window end finds none in 8 days, the
\* post-window start finds the quote of the Monday after the gap
C23_Witness ==
    /\ study.called /\ study.op = "_compute_window_returns"
    /\ study.prices = PriceSeries(Holes, {})
    /\ study.gap_days = 0
    /\ study.event_date = StudyTimestamp(3) + 6 + 5
    /\ study.boundary.pre_start = Some(study.prices[StudyTimestamp(3) - 1])
    /\ study.boundary.pre_end = None
    /\ study.boundary.post_start = Some(study.prices[StudyTimestamp(3) + 17])
    /\ study.pre_return = None

\* C24: in a stored CausalTestResult the events used and the events
\* excluded add up to the events found, at least 5 were used, event_details
\* has the row of each study event in order, and excluded_event_ids lists
\* the ids of the rows flagged excluded, no other and each as often
C24_ResultCounters ==
    study.called /\ study.op = "run_event_study" /\ study.causal_test_results # None =>
        LET result == study.causal_test_results[1]
            rows == result.event_details
            flagged == {i \in 1..Len(rows) : rows[i].excluded}
        IN  /\ result.num_events = Len(study.study_events)
            /\ result.num_events_used + result.num_events_excluded = result.num_events
            /\ result.num_events_used >= 5
            /\ Len(rows) = Len(study.study_events)
            /\ \A i \in 1..Len(rows) : rows[i].event_id = study.study_events[i].event_id
            /\ result.num_events_excluded = Len(result.excluded_event_ids)
            /\ Len(result.excluded_event_ids) = Cardinality(flagged)
            /\ \A i \in flagged :
                  result.excluded_event_ids[Cardinality({j \in flagged : j <= i})]
                      = rows[i].event_id

\* a population of 7 signals, two of them of the third event, whose windows
\* have no quotes: both its rows are excluded
C24_Witness ==
    /\ study.called /\ study.op = "run_event_study"
    /\ study.causal_test_results # None
    /\ study.causal_test_results[1].num_events = 7
    /\ study.causal_test_results[1].num_events_used = 5
    /\ study.causal_test_results[1].excluded_event_ids = <<3, 3>>
    /\ study.causal_test_results[1].event_details[2].exclusion_reason
           = <<"insufficient market data in window">>

\* C25: a record whose status is completed has an actual_change, an
\* actual_lag_weeks and a propagation_matched
C25_CompletedHasOutcome ==
    \A i \in 1..Len(props) :
        props[i].status = "completed" =>
            /\ props[i].actual_change # None
            /\ props[i].actual_lag_weeks # None
            /\ props[i].propagation_matched # None

C25_Witness ==
    /\ Len(props) = 2
    /\ props[1].status = "completed"
    /\ props[1].propagation_matched = Some(TRUE)
    /\ props[2].status = "no_response"

\* C26: a record whose status is no_response has no actual_change and no
\* propagation_matched
C26_NoResponseHasNoOutcome ==
    \A i \in 1..Len(props) :
        props[i].status = "no_response" =>
            /\ props[i].actual_change = None
            /\ props[i].propagation_matched = None

\* the fields of a record check_propagation never writes
Kept(r) ==
    <<r.id, r.signal_id, r.source_node, r.target_node, r.expected_lag_weeks,
      r.expected_direction, r.expected_magnitude, r.monitored_from, r.monitored_until>>

\* C28: a check_propagation call leaves the table with the same rows, every
\* row but the one it was given as it was, and of that row every field but
\* actual_change, actual_lag_weeks, propagation_matched and status
C28_CheckFrame ==
    [][\A w \in Workers :
          CheckStep(w) =>
              /\ Len(props') = Len(props)
              /\ \A i \in 1..Len(props) :
                    /\ i # Checked(w) => props'[i] = props[i]
                    /\ DOMAIN props'[i] = DOMAIN props[i]
                    /\ Kept(props'[i]) = Kept(props[i])]_vars

\* the second of two records was checked with data at its deadline, the
\* first is as it was created
C28_Witness ==
    /\ last.op = "check_propagation"
    /\ last.id = 2
    /\ last.committed
    /\ Len(props) = 2
    /\ props[2].status = "completed"
    /\ props[2].actual_change = Some(2)
    /\ props[2].monitored_from = 0
    /\ props[1].status = "monitoring"
    /\ props[1].actual_change = None

\* C29: after a check that found data, actual_lag_weeks is
\* max(1, floor(D / 7)), D the days from monitored_from to
\* min(now, monitored_until), which lies between 1 and
\* max(1, expected_lag_weeks + PROPAGATION_BUFFER_WEEKS)
C29_ActualLagWeeks ==
    [][\A w \in Workers :
          CheckStep(w) /\ last'.fetch.ok /\ last'.fetch.data # <<>> =>
              LET before == props[Checked(w)]
                  after == props'[Checked(w)]
                  until == before.monitored_until[1]
                  D == (IF now <= until THEN now ELSE until) - before.monitored_from
                  weeks == IF D \div 7 >= 1 THEN D \div 7 ELSE 1
                  most == IF before.expected_lag_weeks + PROPAGATION_BUFFER_WEEKS >= 1
                          THEN before.expected_lag_weeks + PROPAGATION_BUFFER_WEEKS ELSE 1
              IN  /\ after.actual_lag_weeks = Some(weeks)
                  /\ 1 <= weeks /\ weeks <= most]_vars

\* a check after the deadline: the weeks are those of the whole window
C29_Witness ==
    /\ last.op = "check_propagation"
    /\ last.fetch.ok /\ last.fetch.data # <<>>
    /\ now > LastRecord.monitored_until[1]
    /\ LastRecord.expected_lag_weeks = 1
    /\ LastRecord.actual_lag_weeks = Some(3)
    /\ \E i \in 1..Len(props) : props[i].actual_lag_weeks = Some(1) /\ props[i].status = "monitoring"

\* the complete graphs the process can hold: the one of each file, and the
\* empty one
GraphVersions == {ParseSource(src).graph : src \in Sources} \cup {EmptyGraph}

\* C27: for every record there is a complete graph, the one before or the
\* one after a reload, in which source_node -> target_node is an edge whose
\* lag (1 when it carries none) is the record's expected_lag_weeks
C27_RecordFromOneGraph ==
    \A i \in 1..Len(props) :
        \E g \in GraphVersions :
            /\ HasEdge(g, props[i].source_node, props[i].target_node)
            /\ EdgeLag(g, props[i].source_node, props[i].target_node)
                   = props[i].expected_lag_weeks

\* C30: whatever significance level the request names, the pre_drift_passed
\* and zero_surprise_passed of the response are the pass flags of the two
\* placebo tests that the study's verdict was computed from
C30_PlaceboFlagsAgree ==
    study.called /\ study.op = "run_causal_test" /\ study.response # None =>
        /\ study.response[1].placebo.pre_drift_passed = study.pre_drift_passed
        /\ study.response[1].placebo.zero_surprise_passed = study.zero_surprise_passed

====
